---- MODULE Spec2Model ----
(***************************************************************************)
(* Session / token lifecycle of the virtual try-on server                  *)
(* (server/routes.ts, server/storage.ts).                                  *)
(*                                                                         *)
(* Tables are the PostgreSQL tables behind DatabaseStorage.  Rows that are *)
(* referenced by id (stores, users, clothing items, QR sessions, customer  *)
(* sessions) are kept in sequences, the row id being the index (the random *)
(* UUID primary keys, up to renaming).  Rows nobody references by id       *)
(* (try-on history, usage logs) are kept in bags of their contents.        *)
(*                                                                         *)
(* Customer handlers are split at their awaits: a request occupies a slot  *)
(* of req and every step between two awaits is one action, so the clock,   *)
(* the owner and other requests can act between the steps.  Owner and      *)
(* manager handlers are one step each; they read the caller from the       *)
(* claims of the bearer token (req.user), which the middlewares in front   *)
(* of them have verified.                                                  *)
(*                                                                         *)
(* The clock is in milliseconds.  It takes the values 0..MaxStart and then *)
(* jumps to the instants at which a grant expires and the millisecond      *)
(* after, and to those at which a bearer token expires: the only instants  *)
(* at which a comparison of the program changes.                           *)
(*                                                                         *)
(* A bcrypt hash is written as the password it hashes behind the prefix   *)
(* of the algorithm and the cost; the salt is left out.                    *)
(***************************************************************************)
EXTENDS Integers, Sequences, FiniteSets, Bags, TLC

\* ---------------------------------------------------------------- bounds
MaxStart    == 1   \* the clock may take every value 0..MaxStart, then jumps
MaxStores   == 2   \* stores (and store managers) ever created
MaxItems    == 2   \* clothing items ever created
MaxQr       == 1   \* QR sessions ever generated
MaxGrants   == 2   \* QR sessions ever generated where grants are studied
MaxSessions == 2   \* customer sessions ever created
MaxTryOns   == 2   \* try-on history rows ever written
MaxLogins   == 2   \* bearer tokens ever issued

\* ------------------------------------------------------ program constants
\* Mutant: the lifetime written in seconds where milliseconds are meant
TTL_Seconds == 60 * 60

TTL == 60 * 60 * 1000            \* routes.ts:513, one hour in milliseconds
TokenLife == 24 * 60 * 60        \* routes.ts:153, expiresIn "24h", in seconds

OwnerEmail   == "admin@stylemirror.com"
ManagerEmail(k) == "manager" \o ToString(k) \o "@shop"
StoreNames   == {"Boutique"}
TempPasswords == {"tmp"}
\* What generateTempPassword returns when a manager's password is reset,
\* and what a user chooses as a new password
FreshTempPasswords == {"tmp2"}
NewPasswords  == {"secret1"}
\* multer: Date.now() + "-" + random, a new file name for every upload
ClothingFile(k) == "/uploads/clothing/" \o ToString(k) \o ".png"
PhotoFiles    == {"", "/uploads/customers/p.png"}
MorePhotoFiles == PhotoFiles \cup {"/uploads/customers/q.png"}
Categories    == {"shirts", "pants"}
Barcodes      == {"B1", "B2"}
\* A field the request body does not have
Absent        == "undefined"
ResultFile    == "/uploads/results/result.png"

Slots == {1, 2}                  \* request slots (requests in flight)

VARIABLES
    now,               \* Date.now(), in milliseconds since the server started
    apiKey,            \* process.env.GEMINI_API_KEY is set
    jwts,              \* the bearer tokens jwt.sign has issued
    stores,            \* table stores
    users,             \* table users
    clothingItems,     \* table clothing_items
    qrSessions,        \* table qr_sessions
    customerSessions,  \* table customer_sessions
    tryOnHistory,      \* table try_on_history (bag of rows)
    usageLogs,         \* table usage_logs (bag of rows)
    req,               \* the requests in flight: handler position and locals
    last               \* the response being sent, with the request it answers

vars == <<now, apiKey, jwts, stores, users, clothingItems, qrSessions,
          customerSessions, tryOnHistory, usageLogs, req, last>>

tables == <<stores, users, clothingItems, qrSessions, customerSessions,
            tryOnHistory, usageLogs>>

\* ------------------------------------------------------------------ rows
NoQr      == [id |-> 0, storeId |-> 0, token |-> 0, expiresAt |-> 0]
NoStore   == [id |-> 0, name |-> "", isActive |-> FALSE]
NoSession == [id |-> 0, qrSessionId |-> 0, storeId |-> 0, expiresAt |-> 0,
              photoUrl |-> ""]
\* barcode "" is the null barcode
NoItem    == [id |-> 0, storeId |-> 0, category |-> "", barcode |-> "",
              imageUrl |-> "", isAvailable |-> FALSE, tryOnCount |-> 0]

NoWrites  == [session |-> 0, history |-> 0, counter |-> 0, log |-> 0]

Meta(sessionId, customerSessionId, clothingItemId, mock, createdBy) ==
    [sessionId |-> sessionId, customerSessionId |-> customerSessionId,
     clothingItemId |-> clothingItemId, mock |-> mock, createdBy |-> createdBy]

UsageLog(storeId, action, metadata) ==
    [storeId |-> storeId, action |-> action, metadata |-> metadata]

Insert(bag, row) == bag (+) SetToBag({row})

\* --------------------------------------------------------------- storage
getStore(id) ==
    IF id \in 1..Len(stores) THEN stores[id] ELSE NoStore

\* bcrypt.hash(password, 10)
bcryptHash(password) == "$2a$10$" \o password

\* bcrypt.compare(password, hash)
bcryptCompare(password, hash) == hash = bcryptHash(password)

\* Mutant: the lookup finds no user
getUserByEmail_None(email) == {}

\* WHERE email = :email
getUserByEmail(email) ==
    {i \in 1..Len(users) : users[i].email = email}

getClothingItem(id) ==
    IF id \in 1..Len(clothingItems) THEN clothingItems[id] ELSE NoItem

\* Mutant: the grant is still found at the instant it expires (gte for gt)
getQrSessionByToken_Gte(token, at) ==
    LET hit == {i \in 1..Len(qrSessions) :
                    /\ qrSessions[i].token = token
                    /\ qrSessions[i].expiresAt >= at}
    IN  IF hit = {} THEN NoQr ELSE qrSessions[CHOOSE i \in hit : TRUE]

\* Mutant: a grant that already has a customer session is no longer found
getQrSessionByToken_SingleUse(token, at) ==
    LET hit == {i \in 1..Len(qrSessions) :
                    /\ qrSessions[i].token = token
                    /\ qrSessions[i].expiresAt > at
                    /\ \A c \in 1..Len(customerSessions) :
                           customerSessions[c].qrSessionId # i}
    IN  IF hit = {} THEN NoQr ELSE qrSessions[CHOOSE i \in hit : TRUE]

\* WHERE token = :token AND expires_at > :now
getQrSessionByToken(token, at) ==
    LET hit == {i \in 1..Len(qrSessions) :
                    /\ qrSessions[i].token = token
                    /\ qrSessions[i].expiresAt > at}
    IN  IF hit = {} THEN NoQr ELSE qrSessions[CHOOSE i \in hit : TRUE]

getCustomerSession(id) ==
    IF id \in 1..Len(customerSessions) THEN customerSessions[id] ELSE NoSession

\* Mutant: the barcode is looked up before an insert only, an update writes
\* whatever barcode it is given
BarcodeTaken_OnInsertOnly(id, storeId, barcode) ==
    /\ id = 0
    /\ barcode # ""
    /\ \E j \in 1..Len(clothingItems) :
           /\ clothingItems[j].id # 0
           /\ clothingItems[j].storeId = storeId
           /\ clothingItems[j].barcode = barcode

\* The unique index on (store, barcode) of clothing_items refuses the row:
\* another row of the store has the same non-null barcode
BarcodeTaken(id, storeId, barcode) ==
    /\ barcode # ""
    /\ \E j \in 1..Len(clothingItems) :
           /\ j # id
           /\ clothingItems[j].id # 0
           /\ clothingItems[j].storeId = storeId
           /\ clothingItems[j].barcode = barcode

\* The rows of the store, of the category when one is given (the order of
\* the rows, createdAt descending, is left out)
getClothingItemsByStore(storeId, category) ==
    {clothingItems[i] : i \in
        {j \in 1..Len(clothingItems) :
            /\ clothingItems[j].id # 0
            /\ clothingItems[j].storeId = storeId
            /\ category # "" => clothingItems[j].category = category}}

\* SET try_on_count = try_on_count + 1 WHERE id = :id
incrementTryOnCount(id) ==
    IF id \in 1..Len(clothingItems) /\ clothingItems[id].id # 0
    THEN [clothingItems EXCEPT ![id].tryOnCount = @ + 1]
    ELSE clothingItems

\* Mutant: a session of a store that is not active counts as expired
SessionExpired_OrStoreClosed(session, at) ==
    session.expiresAt < at \/ ~getStore(session.storeId).isActive

\* Mutant: the handlers look the session up and never compare its expiresAt
SessionExpired_Never(session, at) == FALSE

\* Mutant: the comparison is turned around
SessionExpired_Reversed(session, at) == session.expiresAt > at

\* new Date(session.expiresAt) < new Date()
SessionExpired(session, at) == session.expiresAt < at

\* Mutant: the photo check is left out
NoPhoto_Skipped(session) == FALSE

\* !session.photoUrl
NoPhoto(session) == session.photoUrl = ""

\* Mutant: an item that is not available is not found
ItemNotFound_OrUnavailable(clothingItem, session) ==
    \/ clothingItem.id = 0
    \/ clothingItem.storeId # session.storeId
    \/ ~clothingItem.isAvailable

\* Mutant: the item is looked up, its store is not compared
ItemNotFound_AnyStore(clothingItem, session) == clothingItem.id = 0

\* !clothingItem || clothingItem.storeId !== session.storeId
ItemNotFound(clothingItem, session) ==
    clothingItem.id = 0 \/ clothingItem.storeId # session.storeId

\* Mutant: demo mode answers with the path of a result it never generated
mockResultUrl_Generated(clothingItem) == ResultFile

\* const mockResultUrl = clothingItem.imageUrl
mockResultUrl(clothingItem) == clothingItem.imageUrl

\* Mutant: every session is a session of the first store
InsertCustomerSession_FirstStore(id, qrSession) ==
    [id |-> id, qrSessionId |-> qrSession.id, storeId |-> 1,
     expiresAt |-> qrSession.expiresAt, photoUrl |-> ""]

\* { qrSessionId: qrSession.id, storeId: qrSession.storeId,
\*   expiresAt: qrSession.expiresAt }
InsertCustomerSession(id, qrSession) ==
    [id |-> id, qrSessionId |-> qrSession.id, storeId |-> qrSession.storeId,
     expiresAt |-> qrSession.expiresAt, photoUrl |-> ""]

\* ---------------------------------------------------------- bearer tokens
\* req.user, the claims of a verified token; NoUser when there is none
NoUser == [id |-> 0, email |-> "", role |-> "", storeId |-> 0]

\* No Authorization header, or one that does not start with "Bearer "
NoBearer == [kind |-> "none", user |-> NoUser, exp |-> 0]

\* "Bearer " followed by something that is not a token
Garbage == [kind |-> "garbage", user |-> NoUser, exp |-> 0]

\* { id: user.id, email: user.email, role: user.role, storeId: user.storeId }
Claims(u) ==
    [id |-> u, email |-> users[u].email, role |-> users[u].role,
     storeId |-> users[u].storeId]

\* jwt.sign(claims, JWT_SECRET, { expiresIn: "24h" }): exp is in seconds
jwtSign(user, at) ==
    [kind |-> "signed", user |-> user, exp |-> (at \div 1000) + TokenLife]

\* A token of the same contents signed with another key
Forged(jwt) == [jwt EXCEPT !.kind = "forged"]

\* jwt.verify(token, JWT_SECRET) does not throw: the signature is ours and
\* the clock, in seconds, has not reached exp
jwtVerify(bearer, at) ==
    bearer.kind = "signed" /\ (at \div 1000) < bearer.exp

\* What a middleware does: next(), or a response that ends the request
Pass == [status |-> 0, message |-> ""]

\* Mutant: the middleware loads the user of the token and wants it active
authMiddleware_LoadsUser(bearer, at) ==
    IF bearer.kind = "none"
    THEN [status |-> 401, message |-> "Unauthorized"]
    ELSE IF ~jwtVerify(bearer, at)
    THEN [status |-> 401, message |-> "Invalid token"]
    ELSE IF ~users[bearer.user.id].isActive
    THEN [status |-> 401, message |-> "Unauthorized"]
    ELSE Pass

authMiddleware(bearer, at) ==
    IF bearer.kind = "none"
    THEN [status |-> 401, message |-> "Unauthorized"]
    ELSE IF ~jwtVerify(bearer, at)
    THEN [status |-> 401, message |-> "Invalid token"]
    ELSE Pass

ownerOnlyMiddleware(user) ==
    IF user.role # "company_owner"
    THEN [status |-> 403, message |-> "Access denied"]
    ELSE Pass

managerOnlyMiddleware(user) ==
    IF user.role # "store_manager"
    THEN [status |-> 403, message |-> "Access denied"]
    ELSE Pass

\* ------------------------------------------------------------- requests
Idle == [pc |-> "idle", op |-> "none", token |-> 0, sessionId |-> 0,
         clothingItemId |-> 0, file |-> "", t |-> 0,
         qrSession |-> NoQr, store |-> NoStore, session |-> NoSession,
         clothingItem |-> NoItem, resultImageUrl |-> "", wrote |-> NoWrites,
         bearer |-> NoBearer, storeId |-> 0, category |-> ""]

NoBody == [sessionId |-> 0, storeId |-> 0, storeName |-> "", expiresAt |-> 0,
           photoUrl |-> "", resultImageUrl |-> "", token |-> 0,
           jwt |-> NoBearer, items |-> {}, tempPassword |-> ""]

Response(status, message, body, rq) ==
    [status |-> status, message |-> message, body |-> body, rq |-> rq]

InFlight(op) == Cardinality({p \in Slots : req[p].op = op})

NoResponse == Response(0, "", NoBody, Idle)

\* No response is on its way out.  A response is observed in the state that
\* follows the step sending it, together with the tables as they are then;
\* Sent takes it away before anything else happens.
Quiet == last = NoResponse

\* res.status(...).json(...): the handler ends and its slot is free again
Respond(p, status, message, body, rq) ==
    /\ req' = [req EXCEPT ![p] = Idle]
    /\ last' = Response(status, message, body, rq)

\* A staff handler, modelled as one step
Answer(op, status, message, body) ==
    last' = Response(status, message, body, [Idle EXCEPT !.op = op, !.t = now])

Init ==
    /\ now = 0
    /\ apiKey \in BOOLEAN
    /\ jwts = {}
    /\ stores = <<>>
    /\ users = <<[email |-> OwnerEmail, password |-> bcryptHash("admin123"),
                  role |-> "company_owner", storeId |-> 0,
                  mustResetPassword |-> FALSE, isActive |-> TRUE]>>
    /\ clothingItems = <<>>
    /\ qrSessions = <<>>
    /\ customerSessions = <<>>
    /\ tryOnHistory = EmptyBag
    /\ usageLogs = EmptyBag
    /\ req = [p \in Slots |-> Idle]
    /\ last = NoResponse

\* ------------------------------------------------------------ the clock
\* The instants at which some comparison of the program changes its value
Instants ==
    (0..MaxStart) \cup
    UNION {{qrSessions[i].expiresAt, qrSessions[i].expiresAt + 1} :
               i \in 1..Len(qrSessions)} \cup
    {jwt.exp * 1000 : jwt \in jwts}

Tick ==
    /\ Quiet
    /\ \E t \in Instants : t > now /\ now' = t
    /\ UNCHANGED <<apiKey, jwts, tables, req, last>>

\* ------------------------------------------------------- owner handlers
\* The users a verified token of which passes ownerOnlyMiddleware, and those
\* a verified token of which passes managerOnlyMiddleware
Owners   == {u \in 1..Len(users) : users[u].role = "company_owner"}
Managers == {u \in 1..Len(users) : users[u].role = "store_manager"}

\* POST /api/stores
CreateStore(user, email, storeName, tempPassword) ==
    /\ Quiet
    /\ Len(stores) < MaxStores
    /\ IF getUserByEmail(email) # {}
       THEN /\ Answer("createStore", 400, "Email already registered", NoBody)
            /\ UNCHANGED tables
       ELSE LET storeId == Len(stores) + 1 IN
            /\ stores' = Append(stores, [id |-> storeId, name |-> storeName,
                                         isActive |-> TRUE])
            /\ users' = Append(users,
                   [email |-> email, password |-> bcryptHash(tempPassword),
                    role |-> "store_manager", storeId |-> storeId,
                    mustResetPassword |-> TRUE, isActive |-> TRUE])
            /\ usageLogs' = Insert(usageLogs,
                   UsageLog(storeId, "store_created",
                            Meta(0, 0, 0, FALSE, user.email)))
            /\ Answer("createStore", 201,
                      "Store and manager account created successfully",
                      [NoBody EXCEPT !.storeId = storeId])
            /\ UNCHANGED <<clothingItems, qrSessions, customerSessions,
                           tryOnHistory>>
    /\ UNCHANGED <<now, apiKey, jwts, req>>

\* PATCH /api/stores/:id/toggle-status
ToggleStatus(id) ==
    /\ Quiet
    /\ LET store == getStore(id) IN
       IF store.id = 0
       THEN /\ Answer("toggleStatus", 404, "Store not found", NoBody)
            /\ UNCHANGED stores
       ELSE /\ stores' = [stores EXCEPT ![id].isActive = ~store.isActive]
            /\ Answer("toggleStatus", 200, "", [NoBody EXCEPT !.storeId = id])
    /\ UNCHANGED <<now, apiKey, jwts, users, clothingItems, qrSessions,
                   customerSessions, tryOnHistory, usageLogs, req>>

\* ----------------------------------------------------- manager handlers
\* POST /api/store/items
CreateItem(user, category, barcode, isAvailable) ==
    /\ Quiet
    /\ Len(clothingItems) < MaxItems
    /\ IF user.storeId = 0
       THEN /\ Answer("createItem", 400,
                      "No store associated with this account", NoBody)
            /\ UNCHANGED <<clothingItems, usageLogs>>
       ELSE IF BarcodeTaken(0, user.storeId, barcode)
       THEN \* the insert throws into the catch
            /\ Answer("createItem", 500, "Failed to create item", NoBody)
            /\ UNCHANGED <<clothingItems, usageLogs>>
       ELSE LET id == Len(clothingItems) + 1 IN
            /\ clothingItems' = Append(clothingItems,
                   [id |-> id, storeId |-> user.storeId,
                    category |-> category, barcode |-> barcode,
                    imageUrl |-> ClothingFile(id),
                    isAvailable |-> isAvailable, tryOnCount |-> 0])
            /\ usageLogs' = Insert(usageLogs,
                   UsageLog(user.storeId, "clothing_upload",
                            Meta(0, 0, id, FALSE, "")))
            /\ Answer("createItem", 201, "", NoBody)
    /\ UNCHANGED <<now, apiKey, jwts, stores, users, qrSessions, customerSessions,
                   tryOnHistory, req>>

\* Mutant: a new grant ends the earlier grants of its store
GenerateQr_RevokesEarlier(user) ==
    /\ Quiet
    /\ IF user.storeId = 0
       THEN /\ Answer("generateQr", 400,
                      "No store associated with this account", NoBody)
            /\ UNCHANGED <<qrSessions, usageLogs>>
       ELSE LET id        == Len(qrSessions) + 1
                token     == id
                expiresAt == now + TTL
                earlier   == [i \in 1..Len(qrSessions) |->
                                 IF qrSessions[i].storeId = user.storeId
                                 THEN [qrSessions[i] EXCEPT !.expiresAt = now]
                                 ELSE qrSessions[i]]
            IN
            /\ qrSessions' = Append(earlier,
                   [id |-> id, storeId |-> user.storeId,
                    token |-> token, expiresAt |-> expiresAt])
            /\ usageLogs' = Insert(usageLogs,
                   UsageLog(user.storeId, "qr_generated",
                            Meta(id, 0, 0, FALSE, "")))
            /\ Answer("generateQr", 200, "",
                      [NoBody EXCEPT !.token = token, !.expiresAt = expiresAt])
    /\ UNCHANGED <<now, apiKey, jwts, stores, users, clothingItems,
                   customerSessions, tryOnHistory, req>>

\* Mutant: the grant is filed under the caller's user id, not their store id
GenerateQr_UserIdAsStore(user) ==
    /\ Quiet
    /\ IF user.storeId = 0
       THEN /\ Answer("generateQr", 400,
                      "No store associated with this account", NoBody)
            /\ UNCHANGED <<qrSessions, usageLogs>>
       ELSE LET id        == Len(qrSessions) + 1
                token     == id
                expiresAt == now + TTL
            IN
            /\ qrSessions' = Append(qrSessions,
                   [id |-> id, storeId |-> user.id,
                    token |-> token, expiresAt |-> expiresAt])
            /\ usageLogs' = Insert(usageLogs,
                   UsageLog(user.storeId, "qr_generated",
                            Meta(id, 0, 0, FALSE, "")))
            /\ Answer("generateQr", 200, "",
                      [NoBody EXCEPT !.token = token, !.expiresAt = expiresAt])
    /\ UNCHANGED <<now, apiKey, jwts, stores, users, clothingItems,
                   customerSessions, tryOnHistory, req>>

\* The response of a manager handler that works on one item: the request is
\* kept with the item id it named, the caller's store and the row it read
AnswerItem(op, user, id, status, message) ==
    last' = Response(status, message, NoBody,
                     [Idle EXCEPT !.op = op, !.t = now, !.clothingItemId = id,
                                  !.storeId = user.storeId,
                                  !.clothingItem = getClothingItem(id)])

\* Mutant: the handlers check that the item exists, not whose it is
NotOwnItem_AnyStore(item, user) == item.id = 0

\* !item || item.storeId !== req.user?.storeId
NotOwnItem(item, user) == item.id = 0 \/ item.storeId # user.storeId

\* PATCH /api/store/items/:id: the body may carry a category, a barcode
\* (empty for none) and isAvailable ("true" or "false"), each or none
UpdateItem(user, id, category, barcode, isAvailable) ==
    /\ Quiet
    /\ LET item    == getClothingItem(id)
           updated == [item EXCEPT
               !.category = IF category # Absent THEN category ELSE @,
               !.barcode = IF barcode # Absent THEN barcode ELSE @,
               !.isAvailable = IF isAvailable # Absent
                               THEN isAvailable = "true" ELSE @]
       IN  IF NotOwnItem(item, user)
           THEN /\ AnswerItem("updateItem", user, id, 404, "Item not found")
                /\ UNCHANGED clothingItems
           ELSE IF BarcodeTaken(id, item.storeId, updated.barcode)
           THEN \* the update throws into the catch
                /\ AnswerItem("updateItem", user, id, 500,
                              "Failed to update item")
                /\ UNCHANGED clothingItems
           ELSE /\ clothingItems' = [clothingItems EXCEPT ![id] = updated]
                /\ AnswerItem("updateItem", user, id, 200, "")
    /\ UNCHANGED <<now, apiKey, jwts, stores, users, qrSessions,
                   customerSessions, tryOnHistory, usageLogs, req>>

\* DELETE /api/store/items/:id: the row is gone, its id is never used again
DeleteItem(user, id) ==
    /\ Quiet
    /\ LET item == getClothingItem(id) IN
       IF NotOwnItem(item, user)
       THEN /\ AnswerItem("deleteItem", user, id, 404, "Item not found")
            /\ UNCHANGED clothingItems
       ELSE /\ clothingItems' = [clothingItems EXCEPT ![id] = NoItem]
            /\ AnswerItem("deleteItem", user, id, 200, "Item deleted")
    /\ UNCHANGED <<now, apiKey, jwts, stores, users, qrSessions,
                   customerSessions, tryOnHistory, usageLogs, req>>

\* PATCH /api/store/items/:id/toggle-availability
ToggleAvailability(user, id) ==
    /\ Quiet
    /\ LET item == getClothingItem(id) IN
       IF NotOwnItem(item, user)
       THEN /\ AnswerItem("toggleAvailability", user, id, 404,
                          "Item not found")
            /\ UNCHANGED clothingItems
       ELSE /\ clothingItems' =
                   [clothingItems EXCEPT ![id].isAvailable = ~item.isAvailable]
            /\ AnswerItem("toggleAvailability", user, id, 200, "")
    /\ UNCHANGED <<now, apiKey, jwts, stores, users, qrSessions,
                   customerSessions, tryOnHistory, usageLogs, req>>

\* POST /api/store/qr/generate
GenerateQr(user) ==
    /\ Quiet
    /\ IF user.storeId = 0
       THEN /\ Answer("generateQr", 400,
                      "No store associated with this account", NoBody)
            /\ UNCHANGED <<qrSessions, usageLogs>>
       ELSE LET id        == Len(qrSessions) + 1
                token     == id       \* randomBytes(32): fresh, unguessable
                expiresAt == now + TTL
            IN
            /\ qrSessions' = Append(qrSessions,
                   [id |-> id, storeId |-> user.storeId,
                    token |-> token, expiresAt |-> expiresAt])
            /\ usageLogs' = Insert(usageLogs,
                   UsageLog(user.storeId, "qr_generated",
                            Meta(id, 0, 0, FALSE, "")))
            /\ Answer("generateQr", 200, "",
                      [NoBody EXCEPT !.token = token, !.expiresAt = expiresAt])
    /\ UNCHANGED <<now, apiKey, jwts, stores, users, clothingItems, customerSessions,
                   tryOnHistory, req>>

\* ---------------------------------------------------- customer handlers
\* Mutant: a token that is found but has run out gets an answer of its own
StartValidate_TellsExpired(p, token) ==
    /\ Quiet
    /\ req[p].pc = "idle"
    /\ Len(customerSessions) + InFlight("validate") < MaxSessions
    /\ LET rq        == [Idle EXCEPT !.op = "validate", !.token = token,
                                     !.t = now]
           qrSession == getQrSessionByToken(token, now)
       IN  IF qrSession.id = 0
           THEN IF \E i \in 1..Len(qrSessions) : qrSessions[i].token = token
                THEN Respond(p, 410, "Session expired", NoBody, rq)
                ELSE Respond(p, 404, "Invalid or expired session", NoBody, rq)
           ELSE /\ req' = [req EXCEPT ![p] = [rq EXCEPT !.pc = "vStore",
                                              !.qrSession = qrSession]]
                /\ UNCHANGED last
    /\ UNCHANGED <<now, apiKey, jwts, tables>>

\* GET /api/qr/:token/validate, up to the first await's result
StartValidate(p, token) ==
    /\ Quiet
    /\ req[p].pc = "idle"
    /\ Len(customerSessions) + InFlight("validate") < MaxSessions
    /\ LET rq        == [Idle EXCEPT !.op = "validate", !.token = token,
                                     !.t = now]
           qrSession == getQrSessionByToken(token, now)
       IN  IF qrSession.id = 0
           THEN Respond(p, 404, "Invalid or expired session", NoBody, rq)
           ELSE /\ req' = [req EXCEPT ![p] = [rq EXCEPT !.pc = "vStore",
                                              !.qrSession = qrSession]]
                /\ UNCHANGED last
    /\ UNCHANGED <<now, apiKey, jwts, tables>>

\* const store = await storage.getStore(qrSession.storeId)
ValidateStore(p) ==
    /\ Quiet
    /\ req[p].pc = "vStore"
    /\ LET store == getStore(req[p].qrSession.storeId)
           rq    == [req[p] EXCEPT !.store = store]
       IN  IF store.id = 0 \/ ~store.isActive
           THEN Respond(p, 404, "Store not available", NoBody, rq)
           ELSE /\ req' = [req EXCEPT ![p] = [rq EXCEPT !.pc = "vCreate"]]
                /\ UNCHANGED last
    /\ UNCHANGED <<now, apiKey, jwts, tables>>

\* Mutant: the session gets an hour of its own from the time it is created
ValidateCreate_FreshHour(p) ==
    /\ Quiet
    /\ req[p].pc = "vCreate"
    /\ LET customerSession ==
               [InsertCustomerSession(Len(customerSessions) + 1,
                                      req[p].qrSession)
                    EXCEPT !.expiresAt = now + TTL]
       IN  /\ customerSessions' = Append(customerSessions, customerSession)
           /\ req' = [req EXCEPT ![p].pc = "vLog",
                                 ![p].session = customerSession,
                                 ![p].wrote.session = @ + 1]
    /\ UNCHANGED <<now, apiKey, jwts, stores, users, clothingItems, qrSessions,
                   tryOnHistory, usageLogs, last>>

\* await storage.createCustomerSession({...})
ValidateCreate(p) ==
    /\ Quiet
    /\ req[p].pc = "vCreate"
    /\ LET customerSession ==
               InsertCustomerSession(Len(customerSessions) + 1,
                                     req[p].qrSession)
       IN  /\ customerSessions' = Append(customerSessions, customerSession)
           /\ req' = [req EXCEPT ![p].pc = "vLog",
                                 ![p].session = customerSession,
                                 ![p].wrote.session = @ + 1]
    /\ UNCHANGED <<now, apiKey, jwts, stores, users, clothingItems, qrSessions,
                   tryOnHistory, usageLogs, last>>

\* await storage.createUsageLog({...}); res.json({...})
ValidateLog(p) ==
    /\ Quiet
    /\ req[p].pc = "vLog"
    /\ usageLogs' = Insert(usageLogs,
           UsageLog(req[p].qrSession.storeId, "session_created",
                    Meta(0, req[p].session.id, 0, FALSE, "")))
    /\ Respond(p, 200, "",
               [NoBody EXCEPT !.sessionId = req[p].session.id,
                              !.storeId = req[p].store.id,
                              !.storeName = req[p].store.name,
                              !.expiresAt = req[p].qrSession.expiresAt],
               [req[p] EXCEPT !.wrote.log = @ + 1])
    /\ UNCHANGED <<now, apiKey, jwts, stores, users, clothingItems, qrSessions,
                   customerSessions, tryOnHistory>>

\* Mutant: the handler returns the store's rows without the filter
availableItems_All(items) == items

\* items.filter((item) => item.isAvailable)
availableItems(items) == {item \in items : item.isAvailable}

\* GET /api/customer/clothes?storeId=&category= : the query names a store
\* and maybe a category, and nothing else; "" stands for a missing parameter
ListItems(storeId, category) ==
    /\ Quiet
    /\ LET rq == [Idle EXCEPT !.op = "clothes", !.t = now,
                              !.storeId = storeId, !.category = category]
       IN  IF storeId = 0
           THEN last' = Response(400, "Store ID required", NoBody, rq)
           ELSE last' = Response(200, "",
                    [NoBody EXCEPT !.items = availableItems(
                         getClothingItemsByStore(storeId, category))],
                    rq)
    /\ UNCHANGED <<now, apiKey, jwts, tables, req>>

\* Mutant: the handler does not look for the file, and a request without
\* one stores no reference
StartUpload_NoFileCheck(p, sessionId, file) ==
    /\ Quiet
    /\ req[p].pc = "idle"
    /\ LET rq      == [Idle EXCEPT !.op = "upload", !.sessionId = sessionId,
                                   !.file = file, !.t = now]
           session == getCustomerSession(sessionId)
       IN  IF sessionId = 0
           THEN Respond(p, 400, "Session ID required", NoBody, rq)
           ELSE IF session.id = 0 \/ SessionExpired(session, now)
           THEN Respond(p, 401, "Session expired", NoBody, rq)
           ELSE /\ req' = [req EXCEPT ![p] = [rq EXCEPT !.pc = "uUpdate",
                                              !.session = session]]
                /\ UNCHANGED last
    /\ UNCHANGED <<now, apiKey, jwts, tables>>

\* POST /api/customer/upload-photo, up to the first await's result
StartUpload(p, sessionId, file) ==
    /\ Quiet
    /\ req[p].pc = "idle"
    /\ LET rq      == [Idle EXCEPT !.op = "upload", !.sessionId = sessionId,
                                   !.file = file, !.t = now]
           session == getCustomerSession(sessionId)
       IN  IF sessionId = 0
           THEN Respond(p, 400, "Session ID required", NoBody, rq)
           ELSE IF session.id = 0 \/ SessionExpired(session, now)
           THEN Respond(p, 401, "Session expired", NoBody, rq)
           ELSE IF file = ""
           THEN Respond(p, 400, "No photo uploaded", NoBody,
                        [rq EXCEPT !.session = session])
           ELSE /\ req' = [req EXCEPT ![p] = [rq EXCEPT !.pc = "uUpdate",
                                              !.session = session]]
                /\ UNCHANGED last
    /\ UNCHANGED <<now, apiKey, jwts, tables>>

\* Mutant: a session that has a photo keeps it
UploadUpdate_KeepFirst(p) ==
    /\ Quiet
    /\ req[p].pc = "uUpdate"
    /\ customerSessions' =
           [customerSessions EXCEPT ![req[p].sessionId].photoUrl =
                IF @ = "" THEN req[p].file ELSE @]
    /\ Respond(p, 200, "", [NoBody EXCEPT !.photoUrl = req[p].file], req[p])
    /\ UNCHANGED <<now, apiKey, jwts, stores, users, clothingItems, qrSessions,
                   tryOnHistory, usageLogs>>

\* await storage.updateCustomerSession(sessionId, { photoUrl }); res.json
UploadUpdate(p) ==
    /\ Quiet
    /\ req[p].pc = "uUpdate"
    /\ customerSessions' =
           [customerSessions EXCEPT ![req[p].sessionId].photoUrl = req[p].file]
    /\ Respond(p, 200, "", [NoBody EXCEPT !.photoUrl = req[p].file], req[p])
    /\ UNCHANGED <<now, apiKey, jwts, stores, users, clothingItems, qrSessions,
                   tryOnHistory, usageLogs>>

\* POST /api/tryon, up to the first await's result
StartTryOn(p, sessionId, clothingItemId) ==
    /\ Quiet
    /\ req[p].pc = "idle"
    /\ BagCardinality(tryOnHistory) + InFlight("tryOn") < MaxTryOns
    /\ LET rq      == [Idle EXCEPT !.op = "tryOn", !.sessionId = sessionId,
                                   !.clothingItemId = clothingItemId,
                                   !.t = now]
           session == getCustomerSession(sessionId)
       IN  IF sessionId = 0 \/ clothingItemId = 0
           THEN Respond(p, 400, "Session ID and clothing item ID required",
                        NoBody, rq)
           ELSE IF session.id = 0 \/ SessionExpired(session, now)
           THEN Respond(p, 401, "Session expired", NoBody, rq)
           ELSE IF NoPhoto(session)
           THEN Respond(p, 400, "Please upload a photo first", NoBody,
                        [rq EXCEPT !.session = session])
           ELSE /\ req' = [req EXCEPT ![p] = [rq EXCEPT !.pc = "tItem",
                                              !.session = session]]
                /\ UNCHANGED last
    /\ UNCHANGED <<now, apiKey, jwts, tables>>

\* const clothingItem = await storage.getClothingItem(clothingItemId)
TryOnItem(p) ==
    /\ Quiet
    /\ req[p].pc = "tItem"
    /\ LET clothingItem == getClothingItem(req[p].clothingItemId)
           rq           == [req[p] EXCEPT !.clothingItem = clothingItem]
       IN  IF ItemNotFound(clothingItem, req[p].session)
           THEN Respond(p, 404, "Clothing item not found", NoBody, rq)
           ELSE IF ~apiKey
           THEN \* demo mode: the clothing image is the result
                /\ req' = [req EXCEPT ![p] =
                       [rq EXCEPT !.pc = "tHistory",
                                  !.resultImageUrl = mockResultUrl(clothingItem)]]
                /\ UNCHANGED last
           ELSE /\ req' = [req EXCEPT ![p] = [rq EXCEPT !.pc = "tGenerate"]]
                /\ UNCHANGED last
    /\ UNCHANGED <<now, apiKey, jwts, tables>>

\* Mutant: the catch block records the failed attempt as a try_on usage log
TryOnGenerate_LogsFailure(p) ==
    /\ Quiet
    /\ req[p].pc = "tGenerate"
    /\ \/ /\ req' = [req EXCEPT ![p].pc = "tHistory",
                                ![p].resultImageUrl = ResultFile]
          /\ UNCHANGED <<last, usageLogs>>
       \/ /\ usageLogs' = Insert(usageLogs,
                 UsageLog(req[p].session.storeId, "try_on",
                          Meta(0, req[p].session.id, req[p].clothingItemId,
                               FALSE, "")))
          /\ Respond(p, 500, "Failed to generate try-on image", NoBody,
                     [req[p] EXCEPT !.wrote.log = @ + 1])
    /\ UNCHANGED <<now, apiKey, jwts, stores, users, clothingItems, qrSessions,
                   customerSessions, tryOnHistory>>

\* await generateTryOnImage(...): it returns, or it throws into the catch
TryOnGenerate(p) ==
    /\ Quiet
    /\ req[p].pc = "tGenerate"
    /\ \/ /\ req' = [req EXCEPT ![p].pc = "tHistory",
                                ![p].resultImageUrl = ResultFile]
          /\ UNCHANGED last
       \/ Respond(p, 500, "Failed to generate try-on image", NoBody, req[p])
    /\ UNCHANGED <<now, apiKey, jwts, tables>>

\* Mutant: the history row keeps the customer's photo instead of the result
TryOnHistory_PhotoAsResult(p) ==
    /\ Quiet
    /\ req[p].pc = "tHistory"
    /\ tryOnHistory' = Insert(tryOnHistory,
           [customerSessionId |-> req[p].session.id,
            clothingItemId |-> req[p].clothingItem.id,
            resultImageUrl |-> req[p].session.photoUrl])
    /\ req' = [req EXCEPT ![p].pc = "tIncrement", ![p].wrote.history = @ + 1]
    /\ UNCHANGED <<now, apiKey, jwts, stores, users, clothingItems, qrSessions,
                   customerSessions, usageLogs, last>>

\* Mutant: the handler goes on to the counter without the history row
\* (the insert is left for the end of the handler)
TryOnHistory_Deferred(p) ==
    /\ Quiet
    /\ req[p].pc = "tHistory"
    /\ req' = [req EXCEPT ![p].pc = "tIncrement"]
    /\ UNCHANGED <<now, apiKey, jwts, tables, last>>

\* await storage.createTryOnHistory({...})
TryOnHistory(p) ==
    /\ Quiet
    /\ req[p].pc = "tHistory"
    /\ tryOnHistory' = Insert(tryOnHistory,
           [customerSessionId |-> req[p].session.id,
            clothingItemId |-> req[p].clothingItem.id,
            resultImageUrl |-> req[p].resultImageUrl])
    /\ req' = [req EXCEPT ![p].pc = "tIncrement", ![p].wrote.history = @ + 1]
    /\ UNCHANGED <<now, apiKey, jwts, stores, users, clothingItems, qrSessions,
                   customerSessions, usageLogs, last>>

\* Mutant: the counter is written back from the row the handler read earlier
\* (read-modify-write in the application instead of SET count = count + 1)
TryOnIncrement_ReadModifyWrite(p) ==
    /\ Quiet
    /\ req[p].pc = "tIncrement"
    /\ clothingItems' =
           [clothingItems EXCEPT ![req[p].clothingItem.id].tryOnCount =
                                     req[p].clothingItem.tryOnCount + 1]
    /\ req' = [req EXCEPT ![p].pc = "tLog", ![p].wrote.counter = @ + 1]
    /\ UNCHANGED <<now, apiKey, jwts, stores, users, qrSessions, customerSessions,
                   tryOnHistory, usageLogs, last>>

\* await storage.incrementTryOnCount(clothingItem.id)
TryOnIncrement(p) ==
    /\ Quiet
    /\ req[p].pc = "tIncrement"
    /\ clothingItems' = incrementTryOnCount(req[p].clothingItem.id)
    /\ req' = [req EXCEPT ![p].pc = "tLog", ![p].wrote.counter = @ + 1]
    /\ UNCHANGED <<now, apiKey, jwts, stores, users, qrSessions, customerSessions,
                   tryOnHistory, usageLogs, last>>

\* await storage.createUsageLog({...}); res.json({ resultImageUrl })
TryOnLog(p) ==
    /\ Quiet
    /\ req[p].pc = "tLog"
    /\ usageLogs' = Insert(usageLogs,
           UsageLog(req[p].session.storeId, "try_on",
                    Meta(0, req[p].session.id, req[p].clothingItemId,
                         ~apiKey, "")))
    /\ Respond(p, 200,
               IF apiKey THEN ""
               ELSE "Demo mode - Gemini API key not configured",
               [NoBody EXCEPT !.resultImageUrl = req[p].resultImageUrl],
               [req[p] EXCEPT !.wrote.log = @ + 1])
    /\ UNCHANGED <<now, apiKey, jwts, stores, users, clothingItems, qrSessions,
                   customerSessions, tryOnHistory>>

\* One of the three writes of the try-on handler rejects (the database is
\* unreachable, a constraint fails): the write does not happen, the catch
\* answers 500, and the writes made before it stay
TryOnWriteFails(p) ==
    /\ Quiet
    /\ req[p].pc \in {"tHistory", "tIncrement", "tLog"}
    /\ Respond(p, 500, "Failed to generate try-on image", NoBody, req[p])
    /\ UNCHANGED <<now, apiKey, jwts, tables>>

\* The response has left the server
Sent ==
    /\ ~Quiet
    /\ last' = NoResponse
    /\ UNCHANGED <<now, apiKey, jwts, tables, req>>

\* --------------------------------------------------------- specification
\* E-mail addresses up to renaming: one already registered, or the next new one
Emails ==
    {users[u].email : u \in 1..Len(users)} \cup {ManagerEmail(Len(stores) + 1)}

Staff ==
    \/ \E o \in Owners, e \in Emails, n \in StoreNames,
          pw \in TempPasswords : CreateStore(Claims(o), e, n, pw)
    \/ \E id \in 1..MaxStores : ToggleStatus(id)
    \/ \E u \in Managers : CreateItem(Claims(u), "shirts", "", TRUE)
    \/ /\ Len(qrSessions) < MaxQr
       /\ \E u \in Managers : GenerateQr(Claims(u))

Customer(p) ==
    \/ \E token \in 1..(MaxQr + 1) : StartValidate(p, token)
    \/ ValidateStore(p)
    \/ ValidateCreate(p)
    \/ ValidateLog(p)
    \/ \E s \in 0..MaxSessions, f \in PhotoFiles : StartUpload(p, s, f)
    \/ UploadUpdate(p)
    \/ \E s \in 0..MaxSessions, i \in 0..MaxItems : StartTryOn(p, s, i)
    \/ TryOnItem(p)
    \/ TryOnGenerate(p)
    \/ TryOnHistory(p)
    \/ TryOnIncrement(p)
    \/ TryOnLog(p)

Next == Tick \/ Staff \/ Customer(1) \/ Sent

Spec == Init /\ [][Next]_vars

\* Two customer requests in flight at once, their steps interleaved in every
\* order, on a database the staff fills; the clock and the stores' status
\* stand still.
Setup ==
    \/ \E o \in Owners, e \in Emails, n \in StoreNames,
          pw \in TempPasswords : CreateStore(Claims(o), e, n, pw)
    \/ \E u \in Managers : CreateItem(Claims(u), "shirts", "", TRUE)
    \/ /\ Len(qrSessions) < MaxQr
       /\ \E u \in Managers : GenerateQr(Claims(u))

NextConcurrent == Setup \/ (\E p \in Slots : Customer(p)) \/ Sent

SpecConcurrent == Init /\ [][NextConcurrent]_vars

\* A customer who browses, uploads and tries on while the clock runs, on a
\* database the staff fills; the stores' status stands still.
NextBrowse ==
    \/ Tick
    \/ Setup
    \/ Customer(1)
    \/ \E s \in 0..MaxStores : ListItems(s, "")
    \/ Sent

SpecBrowse == Init /\ [][NextBrowse]_vars

\* One store, one item and one customer, and a manager who issues one grant
\* after another while the clock runs and the owner toggles the store
NextGrants ==
    \/ Tick
    \/ /\ Len(stores) < 1
       /\ \E o \in Owners, e \in Emails, n \in StoreNames,
             pw \in TempPasswords : CreateStore(Claims(o), e, n, pw)
    \/ \E id \in 1..MaxStores : ToggleStatus(id)
    \/ /\ Len(clothingItems) < 1
       /\ \E u \in Managers : CreateItem(Claims(u), "shirts", "", TRUE)
    \/ /\ Len(qrSessions) < MaxGrants
       /\ \E u \in Managers : GenerateQr(Claims(u))
    \/ Customer(1)
    \/ Sent

SpecGrants == Init /\ [][NextGrants]_vars

\* A customer who uploads one photo after another
NextUpload ==
    \/ Tick
    \/ \E o \in Owners, e \in Emails, n \in StoreNames,
          pw \in TempPasswords : CreateStore(Claims(o), e, n, pw)
    \/ /\ Len(qrSessions) < MaxQr
       /\ \E u \in Managers : GenerateQr(Claims(u))
    \/ \E token \in 1..(MaxQr + 1) : StartValidate(1, token)
    \/ ValidateStore(1)
    \/ ValidateCreate(1)
    \/ ValidateLog(1)
    \/ \E s \in 0..MaxSessions, f \in MorePhotoFiles : StartUpload(1, s, f)
    \/ UploadUpdate(1)
    \/ Sent

SpecUpload == Init /\ [][NextUpload]_vars

\* Two stores, their items and a grant of either, a customer who tries on
\* items of both, and managers who change and delete items meanwhile
NextTenancy ==
    \/ Setup
    \/ \E u \in Managers, id \in 1..MaxItems, c \in {Absent, "pants"} :
          UpdateItem(Claims(u), id, c, Absent, Absent)
    \/ \E u \in Managers, id \in 1..MaxItems : DeleteItem(Claims(u), id)
    \/ Customer(1)
    \/ Sent

SpecTenancy == Init /\ [][NextTenancy]_vars

\* One store whose manager makes items available and unavailable while a
\* customer browses and tries on
NextUnavailable ==
    \/ /\ Len(stores) < 1
       /\ \E o \in Owners, e \in Emails, n \in StoreNames,
             pw \in TempPasswords : CreateStore(Claims(o), e, n, pw)
    \/ \E u \in Managers, a \in BOOLEAN :
          CreateItem(Claims(u), "shirts", "", a)
    \/ \E u \in Managers, id \in 1..MaxItems :
          ToggleAvailability(Claims(u), id)
    \/ /\ Len(qrSessions) < MaxQr
       /\ \E u \in Managers : GenerateQr(Claims(u))
    \/ Customer(1)
    \/ \E s \in 0..MaxStores : ListItems(s, "")
    \/ Sent

SpecUnavailable == Init /\ [][NextUnavailable]_vars

\* One store with an item and a grant, a customer, and an owner who turns
\* the store off and on while the customer uploads, browses and tries on
NextDeactivated ==
    \/ Tick
    \/ /\ Len(stores) < 1
       /\ \E o \in Owners, e \in Emails, n \in StoreNames,
             pw \in TempPasswords : CreateStore(Claims(o), e, n, pw)
    \/ \E id \in 1..MaxStores : ToggleStatus(id)
    \/ /\ Len(clothingItems) < 1
       /\ \E u \in Managers : CreateItem(Claims(u), "shirts", "", TRUE)
    \/ /\ Len(qrSessions) < MaxQr
       /\ \E u \in Managers : GenerateQr(Claims(u))
    \/ Customer(1)
    \/ \E s \in 0..MaxStores : ListItems(s, "")
    \/ Sent

SpecDeactivated == Init /\ [][NextDeactivated]_vars

\* The same stores, grants and customer, and an owner who turns stores off
\* and on
NextValidate ==
    \/ NextUpload
    \/ \E id \in 1..MaxStores : ToggleStatus(id)

SpecValidate == Init /\ [][NextValidate]_vars

\* The same, with the scheduling of the server: time passes, the event loop
\* resumes every awaited continuation, and every response is sent. No request
\* has to arrive, and the server has no timer or job of its own.
SpecUploadLive ==
    /\ Init
    /\ [][NextUpload]_vars
    /\ WF_vars(Tick)
    /\ WF_vars(ValidateStore(1) \/ ValidateCreate(1) \/ ValidateLog(1)
                  \/ UploadUpdate(1))
    /\ WF_vars(Sent)

\* The catalogue of the stores and what a customer is shown of it
NextCatalog ==
    \/ \E o \in Owners, e \in Emails, n \in StoreNames,
          pw \in TempPasswords : CreateStore(Claims(o), e, n, pw)
    \/ \E u \in Managers, c \in Categories, a \in BOOLEAN :
          CreateItem(Claims(u), c, "", a)
    \/ \E u \in Managers, id \in 1..MaxItems : ToggleAvailability(Claims(u), id)
    \/ \E s \in 0..(MaxStores + 1), c \in Categories \cup {""} : ListItems(s, c)
    \/ Sent

SpecCatalog == Init /\ [][NextCatalog]_vars

\* One store, its items and one customer, with a database that may fail
\* under the writes of a try-on, and a manager who changes the items meanwhile
NextItems ==
    \/ /\ Len(stores) < 1
       /\ \E o \in Owners, e \in Emails, n \in StoreNames,
             pw \in TempPasswords : CreateStore(Claims(o), e, n, pw)
    \/ \E u \in Managers : CreateItem(Claims(u), "shirts", "", TRUE)
    \/ /\ Len(qrSessions) < MaxQr
       /\ \E u \in Managers : GenerateQr(Claims(u))
    \/ \E u \in Managers, id \in 1..MaxItems, c \in {Absent, "pants"},
          a \in {Absent, "false"} : UpdateItem(Claims(u), id, c, Absent, a)
    \/ \E u \in Managers, id \in 1..MaxItems :
          ToggleAvailability(Claims(u), id)
    \/ Customer(1)
    \/ TryOnWriteFails(1)
    \/ Sent

SpecItems == Init /\ [][NextItems]_vars

\* The managers of two stores who create, change and delete their items
NextInventory ==
    \/ \E o \in Owners, e \in Emails, n \in StoreNames,
          pw \in TempPasswords : CreateStore(Claims(o), e, n, pw)
    \/ \E u \in Managers, b \in Barcodes \cup {""}, a \in BOOLEAN :
          CreateItem(Claims(u), "shirts", b, a)
    \/ \E u \in Managers, id \in 1..(MaxItems + 1),
          c \in {Absent, "pants"}, b \in Barcodes \cup {"", Absent},
          a \in {Absent, "false"} :
          UpdateItem(Claims(u), id, c, b, a)
    \/ \E u \in Managers, id \in 1..(MaxItems + 1) : DeleteItem(Claims(u), id)
    \/ \E u \in Managers, id \in 1..(MaxItems + 1) :
          ToggleAvailability(Claims(u), id)
    \/ Sent

SpecInventory == Init /\ [][NextInventory]_vars

\* ------------------------------------------------- staff and their tokens
\* Mutant: the handler does not read the active flag
Login_IgnoresActive(email, password) ==
    /\ Quiet
    /\ Cardinality(jwts) < MaxLogins
    /\ LET found == getUserByEmail(email) IN
       IF found = {}
       THEN /\ Answer("login", 401, "Invalid credentials", NoBody)
            /\ UNCHANGED jwts
       ELSE IF \E u \in found : ~bcryptCompare(password, users[u].password)
       THEN /\ Answer("login", 401, "Invalid credentials", NoBody)
            /\ UNCHANGED jwts
       ELSE LET token == jwtSign(Claims(CHOOSE u \in found : TRUE), now) IN
            /\ jwts' = jwts \cup {token}
            /\ Answer("login", 200, "", [NoBody EXCEPT !.jwt = token])
    /\ UNCHANGED <<now, apiKey, tables, req>>

\* POST /api/auth/login
Login(email, password) ==
    /\ Quiet
    /\ Cardinality(jwts) < MaxLogins
    /\ LET found == getUserByEmail(email) IN
       IF found = {} \/ \E u \in found : ~users[u].isActive
       THEN /\ Answer("login", 401, "Invalid credentials", NoBody)
            /\ UNCHANGED jwts
       ELSE IF \E u \in found : ~bcryptCompare(password, users[u].password)
       THEN /\ Answer("login", 401, "Invalid credentials", NoBody)
            /\ UNCHANGED jwts
       ELSE LET token == jwtSign(Claims(CHOOSE u \in found : TRUE), now) IN
            /\ jwts' = jwts \cup {token}
            /\ Answer("login", 200, "", [NoBody EXCEPT !.jwt = token])
    /\ UNCHANGED <<now, apiKey, tables, req>>

\* Mutant: the handler stores the new password whatever the current one is
ResetPassword_NoCurrentCheck(bearer, currentPassword, newPassword) ==
    /\ Quiet
    /\ LET auth == authMiddleware(bearer, now)
           rq   == [Idle EXCEPT !.op = "resetPassword", !.t = now,
                                !.bearer = bearer]
           id   == bearer.user.id
       IN  IF auth # Pass
           THEN /\ last' = Response(auth.status, auth.message, NoBody, rq)
                /\ UNCHANGED users
           ELSE IF id \notin 1..Len(users)
           THEN /\ last' = Response(404, "User not found", NoBody, rq)
                /\ UNCHANGED users
           ELSE /\ users' = [users EXCEPT
                       ![id].password = bcryptHash(newPassword),
                       ![id].mustResetPassword = FALSE]
                /\ last' = Response(200, "Password updated successfully",
                                    NoBody, rq)
    /\ UNCHANGED <<now, apiKey, jwts, stores, clothingItems, qrSessions,
                   customerSessions, tryOnHistory, usageLogs, req>>

\* POST /api/auth/reset-password, behind authMiddleware
ResetPassword(bearer, currentPassword, newPassword) ==
    /\ Quiet
    /\ LET auth == authMiddleware(bearer, now)
           rq   == [Idle EXCEPT !.op = "resetPassword", !.t = now,
                                !.bearer = bearer]
           id   == bearer.user.id
       IN  IF auth # Pass
           THEN /\ last' = Response(auth.status, auth.message, NoBody, rq)
                /\ UNCHANGED users
           ELSE IF id \notin 1..Len(users)
           THEN /\ last' = Response(404, "User not found", NoBody, rq)
                /\ UNCHANGED users
           ELSE IF ~bcryptCompare(currentPassword, users[id].password)
           THEN /\ last' = Response(401, "Current password is incorrect",
                                    NoBody, rq)
                /\ UNCHANGED users
           ELSE /\ users' = [users EXCEPT
                       ![id].password = bcryptHash(newPassword),
                       ![id].mustResetPassword = FALSE]
                /\ last' = Response(200, "Password updated successfully",
                                    NoBody, rq)
    /\ UNCHANGED <<now, apiKey, jwts, stores, clothingItems, qrSessions,
                   customerSessions, tryOnHistory, usageLogs, req>>

\* Mutant: the handler finds the manager of the store and stores the hash
ResetManagerPassword_Stores(user, id, tempPassword) ==
    /\ Quiet
    /\ IF getStore(id).id = 0
       THEN /\ Answer("resetManagerPassword", 404, "Store not found", NoBody)
            /\ UNCHANGED users
       ELSE /\ users' = [u \in 1..Len(users) |->
                   IF users[u].storeId = id
                   THEN [users[u] EXCEPT
                            !.password = bcryptHash(tempPassword),
                            !.mustResetPassword = TRUE]
                   ELSE users[u]]
            /\ Answer("resetManagerPassword", 200,
                      "Password reset successfully",
                      [NoBody EXCEPT !.tempPassword = tempPassword,
                                     !.storeId = id])
    /\ UNCHANGED <<now, apiKey, jwts, stores, clothingItems, qrSessions,
                   customerSessions, tryOnHistory, usageLogs, req>>

\* POST /api/stores/:id/reset-password, for an owner: the hash is computed
\* and dropped, no user is looked up or written
ResetManagerPassword(user, id, tempPassword) ==
    /\ Quiet
    /\ IF getStore(id).id = 0
       THEN Answer("resetManagerPassword", 404, "Store not found", NoBody)
       ELSE Answer("resetManagerPassword", 200,
                   "Password reset successfully",
                   [NoBody EXCEPT !.tempPassword = tempPassword,
                                  !.storeId = id])
    /\ UNCHANGED <<now, apiKey, jwts, tables, req>>

\* The operator of the database sets is_active of a user to false.  No route
\* of the server writes the column; login (routes.ts:131) reads it.
DeactivateUser(u) ==
    /\ Quiet
    /\ users[u].isActive
    /\ users' = [users EXCEPT ![u].isActive = FALSE]
    /\ UNCHANGED <<now, apiKey, jwts, stores, clothingItems, qrSessions,
                   customerSessions, tryOnHistory, usageLogs, req, last>>

OwnerOps   == {"createStore", "toggleStatus"}
ManagerOps == {"createItem", "generateQr"}
StaffOps   == OwnerOps \cup ManagerOps

\* Mutant: the role middleware is mounted in front of authMiddleware
Gate_RoleFirst(op, bearer, at) ==
    LET role == IF op \in OwnerOps THEN ownerOnlyMiddleware(bearer.user)
                ELSE managerOnlyMiddleware(bearer.user)
    IN  IF role # Pass THEN role ELSE authMiddleware(bearer, at)

\* app.post(path, authMiddleware, ownerOnlyMiddleware, handler) and
\* app.post(path, authMiddleware, managerOnlyMiddleware, handler): what the
\* middlewares in front of the handler of op answer
Gate(op, bearer, at) ==
    LET auth == authMiddleware(bearer, at) IN
    IF auth # Pass THEN auth
    ELSE IF op \in OwnerOps THEN ownerOnlyMiddleware(bearer.user)
    ELSE managerOnlyMiddleware(bearer.user)

\* A middleware has answered: the handler does not run
Denied(op, bearer) ==
    /\ Quiet
    /\ Gate(op, bearer, now) # Pass
    /\ last' = Response(Gate(op, bearer, now).status,
                        Gate(op, bearer, now).message, NoBody,
                        [Idle EXCEPT !.op = op, !.t = now, !.bearer = bearer])
    /\ UNCHANGED <<now, apiKey, jwts, tables, req>>

\* The handler of op, run for the caller req.user
Handler(op, user) ==
    \/ /\ op = "createStore"
       /\ \E e \in Emails, n \in StoreNames, pw \in TempPasswords :
              CreateStore(user, e, n, pw)
    \/ /\ op = "toggleStatus"
       /\ \E id \in 1..MaxStores : ToggleStatus(id)
    \/ /\ op = "createItem"
       /\ CreateItem(user, "shirts", "", TRUE)
    \/ /\ op = "generateQr"
       /\ Len(qrSessions) < MaxQr
       /\ GenerateQr(user)

\* The middlewares have called next(): the handler runs with req.user
Accepted(op, bearer) ==
    /\ Gate(op, bearer, now) = Pass
    /\ Handler(op, bearer.user)

\* The Authorization headers a client may send: none, garbage, a token the
\* server issued, or a token signed with a key that is not the server's
Bearers ==
    {NoBearer, Garbage} \cup jwts \cup {Forged(jwt) : jwt \in jwts}
    \cup {Forged(jwtSign(Claims(o), now)) : o \in Owners}

Passwords == {"admin123", "wrong"} \cup TempPasswords

\* What a user may type as a password
AccountPasswords ==
    Passwords \cup FreshTempPasswords \cup NewPasswords

\* One store, its manager and the owner: they log in, change their
\* passwords, the owner resets the manager's, a user is deactivated
NextAccounts ==
    \/ /\ Len(stores) < 1
       /\ \E o \in Owners, e \in Emails, n \in StoreNames,
             pw \in TempPasswords : CreateStore(Claims(o), e, n, pw)
    \/ \E e \in Emails, pw \in AccountPasswords : Login(e, pw)
    \/ \E bearer \in Bearers, cur \in AccountPasswords, new \in NewPasswords :
          ResetPassword(bearer, cur, new)
    \/ \E o \in Owners, id \in 1..MaxStores, pw \in FreshTempPasswords :
          ResetManagerPassword(Claims(o), id, pw)
    \/ \E u \in 1..Len(users) : DeactivateUser(u)
    \/ Sent

SpecAccounts == Init /\ [][NextAccounts]_vars

NextStaff ==
    \/ Tick
    \/ \E e \in Emails, pw \in Passwords : Login(e, pw)
    \/ \E u \in 1..Len(users) : DeactivateUser(u)
    \/ \E op \in StaffOps, bearer \in Bearers : Denied(op, bearer)
    \/ \E op \in StaffOps, bearer \in Bearers : Accepted(op, bearer)
    \/ Sent

SpecStaff == Init /\ [][NextStaff]_vars

\* ================================================================ claims
\* The observation point of a request is the state in which its response is
\* on its way out (last): last.rq holds the request, the time t of its
\* time-dependent check, what it read and how many rows it wrote.

GrantsOf(token) == {i \in 1..Len(qrSessions) : qrSessions[i].token = token}

HasIds(rq) == rq.sessionId # 0 /\ rq.clothingItemId # 0

SessionExists(id) == id \in 1..Len(customerSessions)

\* isLive of the specification: the session exists and now < expiresAt
IsLive(id, at) == SessionExists(id) /\ at < customerSessions[id].expiresAt

RowsOf(bag, Match(_)) ==
    LET rows == {r \in BagToSet(bag) : Match(r)}
    IN  BagCardinality([r \in rows |-> CopiesIn(r, bag)])

HistoryOfItem(id) ==
    LET Match(r) == r.clothingItemId = id IN RowsOf(tryOnHistory, Match)

TryOnLogsOfItem(id) ==
    LET Match(r) == r.action = "try_on" /\ r.metadata.clothingItemId = id
    IN  RowsOf(usageLogs, Match)

\* C1: validate(token), asked at time t, answers 200 with a new customer
\* session exactly when a grant with that token exists, t < its expiresAt and
\* the grant's store, as the handler reads it, exists and is active; every
\* other validate is answered 404 and creates nothing, and a rejection for
\* the store is sent while the store is indeed missing or inactive.
ValidateAcceptable ==
    \E i \in GrantsOf(last.rq.token) :
        /\ last.rq.t < qrSessions[i].expiresAt
        /\ last.rq.store.id = qrSessions[i].storeId
        /\ last.rq.store.id # 0
        /\ last.rq.store.isActive

C1_ValidateIff ==
    last.rq.op = "validate" =>
        /\ (last.status = 200) <=> ValidateAcceptable
        /\ last.status = 200 =>
              /\ last.rq.wrote.session = 1
              /\ SessionExists(last.body.sessionId)
              /\ customerSessions[last.body.sessionId].qrSessionId
                     \in GrantsOf(last.rq.token)
        /\ last.status # 200 =>
              /\ last.status = 404
              /\ last.rq.wrote = NoWrites
              /\ \A i \in GrantsOf(last.rq.token) :
                     last.rq.t < qrSessions[i].expiresAt =>
                         ~getStore(qrSessions[i].storeId).isActive

\* A validation asked after the grant's issue time and answered 200
C1_Witness ==
    /\ last.rq.op = "validate"
    /\ last.status = 200
    /\ last.rq.t > 0
    /\ \E i \in GrantsOf(last.rq.token) : qrSessions[i].storeId = 1

\* C2: a try-on request naming a session and an item whose expiry check runs
\* at a time after the session's expiresAt is answered 401 "Session expired"
\* and has written no history row, no counter increment and no usage log.
C2_ExpiredTryOn ==
    (/\ last.rq.op = "tryOn"
     /\ HasIds(last.rq)
     /\ SessionExists(last.rq.sessionId)
     /\ last.rq.t > customerSessions[last.rq.sessionId].expiresAt)
    => /\ last.status = 401
       /\ last.message = "Session expired"
       /\ last.rq.wrote = NoWrites

\* An expired try-on on a session that got its photo while it was live
C2_Witness ==
    /\ last.rq.op = "tryOn"
    /\ HasIds(last.rq)
    /\ SessionExists(last.rq.sessionId)
    /\ last.rq.t > customerSessions[last.rq.sessionId].expiresAt
    /\ customerSessions[last.rq.sessionId].photoUrl # ""
    /\ last.status = 401

\* C3 (as claimed): attachPhoto and requestTryOn on an existing session are
\* answered 401 whenever their check runs at now >= expiresAt, the instant
\* now = expiresAt included.
C3_LiveIffBefore ==
    (/\ last.rq.op \in {"upload", "tryOn"}
     /\ SessionExists(last.rq.sessionId)
     /\ last.rq.op = "tryOn" => HasIds(last.rq)
     /\ last.rq.op = "upload" => last.rq.file # ""
     /\ last.rq.t >= customerSessions[last.rq.sessionId].expiresAt)
    => last.status = 401

\* The request passed the session checks of the try-on handler at a time the
\* session was live, with a photo attached
LiveWithPhoto(rq) ==
    /\ rq.op = "tryOn"
    /\ HasIds(rq)
    /\ IsLive(rq.sessionId, rq.t)
    /\ rq.session.id = rq.sessionId
    /\ rq.session.photoUrl # ""

\* C4: a try-on request on a live session with a photo whose item belongs to
\* another store is answered 404 "Clothing item not found", the very answer
\* an unknown item id gets, and has written no history row, no counter
\* increment and no usage log.
C4_CrossTenantNotFound ==
    LET item == getClothingItem(last.rq.clothingItemId) IN
    (/\ LiveWithPhoto(last.rq)
     /\ \/ item.id = 0
        \/ item.storeId # customerSessions[last.rq.sessionId].storeId)
    => /\ last.status = 404
       /\ last.message = "Clothing item not found"
       /\ last.body = NoBody
       /\ last.rq.wrote = NoWrites

\* A try-on of an existing item of another store than the session's
C4_Witness ==
    LET item == getClothingItem(last.rq.clothingItemId) IN
    /\ LiveWithPhoto(last.rq)
    /\ item.id # 0
    /\ item.storeId # customerSessions[last.rq.sessionId].storeId
    /\ last.status = 404

\* C5: whatever the interleaving of the steps of concurrent try-on requests,
\* the counter of every item equals the number of try-on requests on it that
\* were answered 200 (one try_on usage log each) plus the requests in flight
\* that have done their increment and not yet answered: no update is lost.
C5_NoLostUpdate ==
    \A i \in 1..Len(clothingItems) :
        clothingItems[i].tryOnCount =
            TryOnLogsOfItem(i)
            + Cardinality({p \in Slots : /\ req[p].pc = "tLog"
                                          /\ req[p].clothingItem.id = i})

\* Two requests on one item overlapped: the one answered now read the item
\* before the other's increment, and the counter stands at 2 with none left
C5_Witness ==
    /\ last.rq.op = "tryOn"
    /\ last.status = 200
    /\ last.rq.clothingItem.tryOnCount = 0
    /\ clothingItems[last.rq.clothingItem.id].tryOnCount = 2
    /\ \A p \in Slots : req[p].pc = "idle"

\* C6: every customer session carries the expiresAt of the QR session it was
\* created from, and validate returns that value, whenever it was asked.
C6_ExpiryCopied ==
    /\ \A c \in 1..Len(customerSessions) :
           /\ customerSessions[c].qrSessionId \in 1..Len(qrSessions)
           /\ customerSessions[c].expiresAt =
                  qrSessions[customerSessions[c].qrSessionId].expiresAt
    /\ (last.rq.op = "validate" /\ last.status = 200) =>
           last.body.expiresAt =
               customerSessions[last.body.sessionId].expiresAt

\* A session created during a validation asked after the grant's issue time,
\* where validation time plus one hour differs from the grant's expiry
C6_Witness ==
    /\ last.rq.op = "validate"
    /\ last.status = 200
    /\ last.rq.t + TTL > customerSessions[last.body.sessionId].expiresAt

\* The customer sessions created from grant g
SessionsOfGrant(g) ==
    {c \in 1..Len(customerSessions) : customerSessions[c].qrSessionId = g}

SessionLogsOf(c) ==
    LET Match(r) == /\ r.action = "session_created"
                    /\ r.metadata.customerSessionId = c
    IN  RowsOf(usageLogs, Match)

\* C7: a validation answered 200 leaves its token valid (the same validate
\* would find the grant again) and has created one session of its own, bound
\* to the grant's store; the sessions of a grant are as many as the
\* validations of its token answered 200 (one session_created log each) plus
\* those in flight that have created theirs.
C7_TokenNotConsumed ==
    /\ (last.rq.op = "validate" /\ last.status = 200) =>
           /\ getQrSessionByToken(last.rq.token, last.rq.t).id
                  = last.rq.qrSession.id
           /\ last.rq.wrote.session = 1
           /\ customerSessions[last.body.sessionId].storeId
                  = last.rq.qrSession.storeId
           /\ last.body.storeId = last.rq.qrSession.storeId
    /\ \A c \in 1..Len(customerSessions) :
           SessionLogsOf(c)
           + Cardinality({p \in Slots : /\ req[p].pc = "vLog"
                                         /\ req[p].session.id = c}) = 1

\* The second validation of one token is answered 200 with a second session
C7_Witness ==
    /\ last.rq.op = "validate"
    /\ last.status = 200
    /\ last.body.sessionId = 2
    /\ Cardinality(SessionsOfGrant(last.rq.qrSession.id)) = 2

\* C8: a try-on request on a live session without a photo is answered 400
\* "Please upload a photo first", whatever item id it names, and has written
\* no history row, no counter increment and no usage log.
C8_NoPhoto ==
    (/\ last.rq.op = "tryOn"
     /\ HasIds(last.rq)
     /\ IsLive(last.rq.sessionId, last.rq.t)
     /\ customerSessions[last.rq.sessionId].photoUrl = "")
    => /\ last.status = 400
       /\ last.message = "Please upload a photo first"
       /\ last.rq.wrote = NoWrites

\* A photo-less try-on of an item of the session's own store
C8_Witness ==
    /\ last.rq.op = "tryOn"
    /\ IsLive(last.rq.sessionId, last.rq.t)
    /\ customerSessions[last.rq.sessionId].photoUrl = ""
    /\ getClothingItem(last.rq.clothingItemId).storeId
           = customerSessions[last.rq.sessionId].storeId
    /\ last.status = 400

\* The history row of the try-on that is being answered
AnsweredRow ==
    [customerSessionId |-> last.rq.sessionId,
     clothingItemId |-> last.rq.clothingItemId,
     resultImageUrl |-> last.body.resultImageUrl]

\* C9: a try-on answered 200 (after generate, validate and upload, all while
\* the session is live, for an item of the session's store) has added one
\* history row {session, item, result}, the rows of the item and its counter
\* both being the counter it read plus one.
C9_OneRowOneIncrement ==
    (last.rq.op = "tryOn" /\ last.status = 200) =>
        LET i == last.rq.clothingItemId IN
        /\ last.rq.wrote.history = 1
        /\ CopiesIn(AnsweredRow, tryOnHistory) >= 1
        /\ HistoryOfItem(i) = last.rq.clothingItem.tryOnCount + 1
        /\ clothingItems[i].tryOnCount = last.rq.clothingItem.tryOnCount + 1
        /\ clothingItems[i].storeId = customerSessions[last.rq.sessionId].storeId

\* The second try-on of an item, generated by the external call
C9_Witness ==
    /\ last.rq.op = "tryOn"
    /\ last.status = 200
    /\ apiKey
    /\ IsLive(last.rq.sessionId, last.rq.t)
    /\ clothingItems[last.rq.clothingItemId].tryOnCount = 2

\* C10: without the API key, a try-on request that passes the session, photo
\* and item checks is answered 200 with the clothing item's own imageUrl and
\* has written one history row (with that url), one counter increment and one
\* try_on usage log (marked mock).
C10_DemoMode ==
    LET item == getClothingItem(last.rq.clothingItemId) IN
    (/\ ~apiKey
     /\ LiveWithPhoto(last.rq)
     /\ item.id # 0
     /\ item.storeId = customerSessions[last.rq.sessionId].storeId)
    => /\ last.status = 200
       /\ last.body.resultImageUrl = item.imageUrl
       /\ last.rq.wrote = [session |-> 0, history |-> 1, counter |-> 1,
                           log |-> 1]
       /\ CopiesIn(AnsweredRow, tryOnHistory) >= 1
       /\ CopiesIn(UsageLog(item.storeId, "try_on",
                            Meta(0, last.rq.sessionId, item.id, TRUE, "")),
                   usageLogs) >= 1

\* A demo-mode try-on of the second item
C10_Witness ==
    /\ ~apiKey
    /\ LiveWithPhoto(last.rq)
    /\ last.status = 200
    /\ last.rq.clothingItemId = 2
    /\ last.body.resultImageUrl = ClothingFile(2)

\* C11: when the external generation call fails, the try-on is answered 500
\* "Failed to generate try-on image" and has written no history row, no
\* counter increment and no usage log: the item's counter, its history rows
\* and its try_on logs are what they were when the handler read the item.
C11_GenerationFailed ==
    LET i == last.rq.clothingItemId IN
    (last.rq.op = "tryOn" /\ last.rq.pc = "tGenerate") =>
        /\ last.status = 500
        /\ last.message = "Failed to generate try-on image"
        /\ last.body = NoBody
        /\ last.rq.wrote = NoWrites
        /\ clothingItems[i].tryOnCount = last.rq.clothingItem.tryOnCount
        /\ HistoryOfItem(i) = last.rq.clothingItem.tryOnCount
        /\ TryOnLogsOfItem(i) = last.rq.clothingItem.tryOnCount

\* A generation that fails for an item whose earlier try-on succeeded
C11_Witness ==
    /\ last.rq.op = "tryOn"
    /\ last.status = 500
    /\ LiveWithPhoto(last.rq)
    /\ clothingItems[last.rq.clothingItemId].tryOnCount = 1

\* The token was not issued by the server (there is none, it is malformed or
\* it is signed with another key), or its 24 hours are over
Unauthenticated(bearer, at) == bearer \notin jwts \/ at >= bearer.exp * 1000

RoleOf(op) == IF op \in OwnerOps THEN "company_owner" ELSE "store_manager"

\* C12: a request to a protected staff operation whose bearer token is
\* missing, malformed, wrongly signed or expired is answered 401; one whose
\* token is valid but carries another role than the operation's is answered
\* 403; the 401 check comes first (an expired token of the wrong role gets
\* 401); in both cases the handler does not run: no table changes and no
\* token is issued.
C12_Gate ==
    [][\A op \in StaffOps, bearer \in Bearers :
          (Denied(op, bearer) \/ Accepted(op, bearer)) =>
              /\ Unauthenticated(bearer, now) =>
                     /\ last'.status = 401
                     /\ tables' = tables /\ jwts' = jwts
              /\ (~Unauthenticated(bearer, now)
                     /\ bearer.user.role # RoleOf(op)) =>
                     /\ last'.status = 403
                     /\ tables' = tables /\ jwts' = jwts]_vars

\* An owner operation asked with a manager's token after the token expired
C12_Witness ==
    /\ last.rq.op \in OwnerOps
    /\ last.rq.bearer \in jwts
    /\ last.rq.bearer.user.role = "store_manager"
    /\ last.rq.t >= last.rq.bearer.exp * 1000
    /\ last.status = 401

\* C13: every step that changes the QR sessions adds one grant, is the
\* generate handler run for a token the server issued, and the grant carries
\* the store id of the user that token was issued to, a store manager with
\* a store; nothing else in the request chooses the store.
C13_GrantOfManager ==
    [][qrSessions' # qrSessions =>
          LET grant == qrSessions'[Len(qrSessions')] IN
          /\ qrSessions' = Append(qrSessions, grant)
          /\ \E bearer \in jwts : Accepted("generateQr", bearer)
          /\ \A bearer \in Bearers :
                 Accepted("generateQr", bearer) =>
                     /\ users[bearer.user.id].role = "store_manager"
                     /\ grant.storeId = users[bearer.user.id].storeId
                     /\ grant.storeId = bearer.user.storeId
                     /\ grant.storeId \in 1..Len(stores)]_vars

\* The manager of the second store has generated a grant
C13_Witness ==
    /\ last.rq.op = "generateQr"
    /\ last.status = 200
    /\ qrSessions # <<>>
    /\ qrSessions[Len(qrSessions)].storeId = 2
    /\ \E jwt \in jwts : jwt.user.storeId = 2

\* C14 (as claimed): whatever the interleaving of validate with the owner's
\* toggle-status, the store of a customer session is active in the step
\* that creates the session.
C14_ActiveAtCreation ==
    [][Len(customerSessions') > Len(customerSessions) =>
          getStore(customerSessions'[Len(customerSessions')].storeId).isActive
      ]_vars

\* The customer sessions of a store
SessionsOfStore(storeId) ==
    {c \in 1..Len(customerSessions) : customerSessions[c].storeId = storeId}

\* An upload or a try-on that names an existing session and is complete
OnSession(rq) ==
    /\ rq.op \in {"upload", "tryOn"}
    /\ SessionExists(rq.sessionId)
    /\ rq.op = "tryOn" => HasIds(rq)
    /\ rq.op = "upload" => rq.file # ""

C16_ListAvailable ==
    (last.rq.op = "clothes" /\ last.rq.storeId # 0) =>
        /\ last.status = 200
        /\ \A i \in 1..Len(clothingItems) :
               clothingItems[i] \in last.body.items <=>
                   /\ clothingItems[i].storeId = last.rq.storeId
                   /\ clothingItems[i].isAvailable
                   /\ \/ last.rq.category = ""
                      \/ clothingItems[i].category = last.rq.category
        /\ \A item \in last.body.items :
               \E i \in 1..Len(clothingItems) : clothingItems[i] = item

\* A listing by category that shows one item of the store and leaves out
\* another of the same category that is not available
C16_Witness ==
    /\ last.rq.op = "clothes"
    /\ last.rq.category # ""
    /\ Cardinality(last.body.items) = 1
    /\ customerSessions = <<>>
    /\ \E i \in 1..Len(clothingItems) :
           /\ clothingItems[i].storeId = last.rq.storeId
           /\ clothingItems[i].category = last.rq.category
           /\ ~clothingItems[i].isAvailable

\* C17 (as claimed): the checks of a staff request are made against the
\* stored user: a request is let through to its handler only if the user of
\* its token is active and has, in the users table, the role and the store
\* of the token's claims.
C17_RecomputedFromStorage ==
    [][\A op \in StaffOps, bearer \in Bearers :
          Accepted(op, bearer) =>
              /\ bearer.user.id \in 1..Len(users)
              /\ users[bearer.user.id].isActive
              /\ users[bearer.user.id].role = bearer.user.role
              /\ users[bearer.user.id].storeId = bearer.user.storeId]_vars

\* C17 (amended): the checks of a staff request are made against the token
\* alone: a request whose token the server issued, less than 24 hours ago,
\* with the role of the operation among its claims, is let through to the
\* handler (it is answered neither 401 nor 403), whatever the users table
\* says of the user now, deactivated or not.
C17_TokenAlone ==
    [][\A op \in StaffOps, bearer \in Bearers :
          (/\ Denied(op, bearer) \/ Accepted(op, bearer)
           /\ bearer \in jwts
           /\ now < bearer.exp * 1000
           /\ bearer.user.role = RoleOf(op))
          => /\ last'.status \notin {401, 403}
             /\ Accepted(op, bearer)]_vars

\* An owner operation is carried out while no owner is active any more
C17_Witness ==
    /\ last.rq.op \in OwnerOps
    /\ last.status \in {200, 201}
    /\ \A o \in Owners : ~users[o].isActive

\* C18: an upload answered 200 leaves the session with the photo of that
\* upload, whatever photo it had before (none, the same, another), and
\* with every other field as the handler read it; the response names that
\* photo.  So after any sequence of successful uploads the session holds the
\* photo of the last one.
C18_LastPhotoWins ==
    (last.rq.op = "upload" /\ last.status = 200) =>
        /\ customerSessions[last.rq.sessionId] =
               [last.rq.session EXCEPT !.photoUrl = last.rq.file]
        /\ last.body.photoUrl = last.rq.file
        /\ last.rq.session.id = last.rq.sessionId

\* An upload that replaced another photo
C18_Witness ==
    /\ last.rq.op = "upload"
    /\ last.status = 200
    /\ last.rq.session.photoUrl \notin {"", last.rq.file}
    /\ customerSessions[last.rq.sessionId].photoUrl = last.rq.file

\* C19 (as claimed): a customer session is never removed and its expiresAt
\* never changes, and from now >= expiresAt on no upload and no try-on on it
\* succeeds: a request on the session that is answered 200 made its expiry
\* check at a time before expiresAt.
C19_ExpiredForGood ==
    [][\A c \in 1..Len(customerSessions) :
          /\ c \in 1..Len(customerSessions')
          /\ customerSessions'[c].expiresAt = customerSessions[c].expiresAt
          /\ (/\ last' # last
              /\ last'.rq.op \in {"upload", "tryOn"}
              /\ last'.rq.sessionId = c
              /\ last'.status = 200)
             => last'.rq.t < customerSessions[c].expiresAt]_vars

\* C20: a QR generation answered 200 at time t has stored a grant, for the
\* caller's store, whose expiresAt is t plus one hour (3 600 000 ms) exactly,
\* and returns that expiresAt with the grant's token; the request carries
\* nothing that enters the computation.
C20_OneHour ==
    (last.rq.op = "generateQr" /\ last.status = 200) =>
        /\ last.body.expiresAt = last.rq.t + 3600000
        /\ \E i \in GrantsOf(last.body.token) :
               /\ i = Len(qrSessions)
               /\ qrSessions[i].expiresAt = last.rq.t + 3600000

\* A grant issued after the start of the clock by the second store's manager
C20_Witness ==
    /\ last.rq.op = "generateQr"
    /\ last.status = 200
    /\ last.rq.t = 1
    /\ qrSessions[Len(qrSessions)].storeId = 2
    /\ last.body.expiresAt = 3600001

\* C21: no step changes or removes a QR session that exists: the grants of
\* a state are, with their token, store and expiresAt, the first grants of
\* the next state, whatever the step (a validation, a try-on, a toggle of
\* the store, the issue of another grant, the passing of time).
C21_GrantImmutable ==
    [][\A i \in 1..Len(qrSessions) :
          /\ i \in 1..Len(qrSessions')
          /\ qrSessions'[i] = qrSessions[i]]_vars

\* The first grant as it was issued, after a second grant was issued, a
\* session validated and tried on with, and the store deactivated
C21_Witness ==
    /\ Len(qrSessions) = 2
    /\ qrSessions[1] = [id |-> 1, storeId |-> 1, token |-> 1,
                        expiresAt |-> TTL]
    /\ qrSessions[2].expiresAt > TTL
    /\ last.rq.op = "tryOn"
    /\ last.status = 200
    /\ customerSessions[last.rq.sessionId].qrSessionId = 1
    /\ ~stores[1].isActive

\* C22: the try-on history only grows, and a try-on request has added exactly
\* one record to it when it is answered as a success and none when it is
\* answered as a failure.
C22_OneRecordPerSuccess ==
    [][/\ tryOnHistory \sqsubseteq tryOnHistory'
       /\ (last' # NoResponse /\ last'.rq.op = "tryOn") =>
             last'.rq.wrote.history = IF last'.status = 200 THEN 1 ELSE 0]_vars

\* The session holds the file of a customer photo. multer has written the
\* file before the handler stored its path, and the server has no code that
\* removes a file, so the file is on disk as long as the row refers to it.
HasPhoto(sessionId) ==
    /\ sessionId \in 1..Len(customerSessions)
    /\ customerSessions[sessionId].photoUrl # ""

\* C23: a customer session that has expired with a photo uploaded in it
\* comes, eventually and without any request, to hold no photo: the photo
\* has been deleted.
C23_PhotoDeleted ==
    \A id \in 1..MaxSessions :
        (HasPhoto(id) /\ SessionExpired(getCustomerSession(id), now))
            ~> ~HasPhoto(id)

ItemOps == {"updateItem", "deleteItem", "toggleAvailability"}

\* C25: when a manager's update, delete or toggle-availability names an
\* item of another store, the answer is 404 "Item not found" with no body,
\* the very answer given when no item has that id, and the step leaves the
\* item, and every table, as it was.
C25_OtherStoreItemNotFound ==
    [][(/\ last' # NoResponse
        /\ last'.rq.op \in ItemOps
        /\ \/ last'.rq.clothingItem.id = 0
           \/ last'.rq.clothingItem.storeId # last'.rq.storeId)
       => /\ last'.status = 404
          /\ last'.message = "Item not found"
          /\ last'.body = NoBody
          /\ getClothingItem(last'.rq.clothingItemId) = last'.rq.clothingItem
          /\ tables' = tables]_vars

\* The manager of store 1 asked to delete an item of store 2, which is
\* still there
C25_Witness ==
    /\ last.rq.op = "deleteItem"
    /\ last.status = 404
    /\ last.rq.storeId = 1
    /\ last.rq.clothingItem.id # 0
    /\ last.rq.clothingItem.storeId = 2
    /\ clothingItems[last.rq.clothingItemId].storeId = 2

\* C26: an upload of a photo tells a session that does not exist from one
\* that has expired: with an unknown session id the answer is NotFound (404),
\* and with a session that exists and whose expiresAt is reached
\* (now >= expiresAt) the answer is Expired (401 "Session expired").
C26_NotFoundOrExpired ==
    (last.rq.op = "upload" /\ last.rq.sessionId # 0) =>
        LET session == getCustomerSession(last.rq.sessionId) IN
        /\ session.id = 0 => last.status = 404
        /\ (session.id # 0 /\ last.rq.t >= session.expiresAt) =>
               (last.status = 401 /\ last.message = "Session expired")

\* The writes of a try-on request so far came in the order history, counter,
\* audit log
InOrder(wrote) ==
    /\ wrote.log <= wrote.counter
    /\ wrote.counter <= wrote.history
    /\ wrote.history <= 1

\* C27: a try-on writes the history record, then the counter, then the
\* audit log, and a write that was made stays when a later one fails; so in
\* every state, also after a storage failure between the writes, the
\* counter of an item is at most the number of history records of the item.
C27_CounterWithinHistory ==
    /\ \A i \in 1..Len(clothingItems) :
           clothingItems[i].tryOnCount <= HistoryOfItem(i)
    /\ \A p \in Slots : req[p].op = "tryOn" => InOrder(req[p].wrote)
    /\ last.rq.op = "tryOn" => InOrder(last.rq.wrote)
    /\ (last.rq.op = "tryOn" /\ last.rq.wrote.history = 1) =>
           HistoryOfItem(last.rq.clothingItem.id) >= 1

\* A try-on that failed between the history write and the counter: the
\* item has one history record and a counter of zero
C27_Witness ==
    /\ last.rq.op = "tryOn"
    /\ last.status = 500
    /\ last.rq.wrote = [NoWrites EXCEPT !.history = 1]
    /\ HistoryOfItem(last.rq.clothingItem.id) = 1
    /\ clothingItems[last.rq.clothingItem.id].tryOnCount = 0

\* C28: the try-on counter of an item changes in one way only, by one, in
\* the increment step of a try-on request on that item, and a try-on request
\* has incremented it exactly once when it is answered as a success (full or
\* degraded) and not at all when it is answered as a failure; an item update,
\* a toggle of availability, a validation and a photo upload leave it alone.
C28_CounterOnlyBySuccess ==
    [][/\ \A i \in 1..Len(clothingItems) :
             /\ i \in 1..Len(clothingItems')
             /\ clothingItems'[i].tryOnCount # clothingItems[i].tryOnCount =>
                   /\ clothingItems'[i].tryOnCount =
                          clothingItems[i].tryOnCount + 1
                   /\ \E p \in Slots :
                          /\ req[p].pc = "tIncrement"
                          /\ req'[p].pc = "tLog"
                          /\ req[p].clothingItem.id = i
       /\ (last' # NoResponse /\ last'.rq.op = "tryOn") =>
             last'.rq.wrote.counter = IF last'.status = 200 THEN 1 ELSE 0]_vars

\* The token names no grant, or names one that has run out at the time
UnknownOrExpired(token, at) ==
    \A i \in 1..Len(qrSessions) :
        qrSessions[i].token = token => qrSessions[i].expiresAt <= at

\* C29: a validation that is rejected, the token unknown or run out or the
\* store missing or inactive, has written nothing: no customer session, no
\* audit event, and grants and stores as they were; and a token that is
\* unknown and a token that has run out get one and the same answer, 404
\* "Invalid or expired session".
C29_RejectedValidateWritesNothing ==
    [][(last' # NoResponse /\ last'.rq.op = "validate") =>
          /\ last'.status = 404 =>
                /\ last'.body = NoBody
                /\ last'.rq.wrote = NoWrites
                /\ tables' = tables
          /\ UnknownOrExpired(last'.rq.token, last'.rq.t) =>
                /\ last'.status = 404
                /\ last'.message = "Invalid or expired session"
          /\ (\/ last'.rq.store.id = 0
              \/ ~last'.rq.store.isActive) => last'.status = 404]_vars

\* A token that was issued and has run out is rejected, and no session exists
C29_Witness ==
    /\ last.rq.op = "validate"
    /\ last.status = 404
    /\ \E i \in 1..Len(qrSessions) :
           /\ qrSessions[i].token = last.rq.token
           /\ qrSessions[i].expiresAt <= last.rq.t
    /\ customerSessions = <<>>
    /\ BagCardinality(usageLogs) = Len(stores) + Len(qrSessions)

\* C30: a customer session that has a photo reference has one in every
\* later state: no step, of any operation, removes the session or sets its
\* photo reference back to none.
C30_PhotoStays ==
    [][\A id \in 1..Len(customerSessions) :
          customerSessions[id].photoUrl # "" =>
              /\ id \in 1..Len(customerSessions')
              /\ customerSessions'[id].photoUrl # ""]_vars

\* An upload without a file on a session that has a photo was refused, and
\* the session has its photo still
C30_Witness ==
    /\ last.rq.op = "upload"
    /\ last.status = 400
    /\ last.message = "No photo uploaded"
    /\ last.rq.session.photoUrl # ""
    /\ customerSessions[last.rq.sessionId].photoUrl = last.rq.session.photoUrl

\* C31: a store creation with an e-mail that no user has adds exactly one
\* store, exactly one user (that e-mail, role store_manager, bound to the
\* new store, forced reset set) and one store_created audit event, and
\* changes no other row; a store creation with an e-mail that a user has is
\* answered 400 "Email already registered" and changes no table.
C31_StoreWithManager ==
    [][\A o \in Owners, e \in Emails, n \in StoreNames, pw \in TempPasswords :
          CreateStore(Claims(o), e, n, pw) =>
              IF \E u \in 1..Len(users) : users[u].email = e
              THEN /\ last'.status = 400
                   /\ last'.message = "Email already registered"
                   /\ tables' = tables
              ELSE /\ last'.status = 201
                   /\ Len(stores') = Len(stores) + 1
                   /\ SubSeq(stores', 1, Len(stores)) = stores
                   /\ Len(users') = Len(users) + 1
                   /\ SubSeq(users', 1, Len(users)) = users
                   /\ users'[Len(users')].email = e
                   /\ users'[Len(users')].role = "store_manager"
                   /\ users'[Len(users')].storeId = stores'[Len(stores')].id
                   /\ users'[Len(users')].mustResetPassword
                   /\ BagCardinality(usageLogs') =
                          BagCardinality(usageLogs) + 1]_vars

\* A store creation was refused for the e-mail of the manager of the one
\* store that exists
C31_Witness ==
    /\ last.rq.op = "createStore"
    /\ last.status = 400
    /\ Len(stores) = 1
    /\ Len(users) = 2
    /\ users[2].storeId = 1
    /\ users[2].mustResetPassword
    /\ BagCardinality(usageLogs) = 1

\* C32: a user's reset of their own password is answered 200 only when the
\* current password they gave is the stored one, and then the stored
\* password is the new one and the forced-reset flag is off, no other user
\* changed; when the current password is wrong the answer is 401 and no
\* user record changes.
C32_OwnPasswordReset ==
    [][\A bearer \in Bearers, cur \in AccountPasswords, new \in NewPasswords :
          (/\ ResetPassword(bearer, cur, new)
           /\ authMiddleware(bearer, now) = Pass) =>
              LET id == bearer.user.id IN
              IF bcryptCompare(cur, users[id].password)
              THEN /\ last'.status = 200
                   /\ users' = [users EXCEPT
                          ![id].password = bcryptHash(new),
                          ![id].mustResetPassword = FALSE]
              ELSE /\ last'.status = 401
                   /\ last'.message = "Current password is incorrect"
                   /\ users' = users]_vars

\* The manager has replaced the temporary password: the forced reset is
\* off, and a login with the new password was answered with a token
C32_Witness ==
    /\ Len(users) = 2
    /\ users[2].password = bcryptHash("secret1")
    /\ ~users[2].mustResetPassword
    /\ last.rq.op = "login"
    /\ last.status = 200
    /\ last.body.jwt.user.id = 2

\* C33: a login is answered with a token exactly when a user has the
\* e-mail, is active and has the password; the token then carries that
\* user's id, e-mail, role and store as stored at that time and verifies;
\* in every other case (no such e-mail, user inactive, wrong password) the
\* answer is the one 401 "Invalid credentials", with no token; no table
\* changes either way.
C33_LoginIssuesToken ==
    [][\A e \in Emails, pw \in AccountPasswords :
          Login(e, pw) =>
              LET who == {u \in 1..Len(users) :
                              /\ users[u].email = e
                              /\ users[u].isActive
                              /\ users[u].password = bcryptHash(pw)}
              IN  /\ tables' = tables
                  /\ IF who # {}
                     THEN /\ last'.status = 200
                          /\ \E u \in who :
                                last'.body.jwt.user =
                                    [id |-> u, email |-> e,
                                     role |-> users[u].role,
                                     storeId |-> users[u].storeId]
                          /\ jwtVerify(last'.body.jwt, now)
                          /\ jwts' = jwts \cup {last'.body.jwt}
                     ELSE /\ last'.status = 401
                          /\ last'.message = "Invalid credentials"
                          /\ last'.body = NoBody
                          /\ jwts' = jwts]_vars

\* The manager of store 1 has logged in and holds a token with the role and
\* the store of a manager, after the owner was deactivated
C33_Witness ==
    /\ last.rq.op = "login"
    /\ last.status = 200
    /\ last.body.jwt.user.role = "store_manager"
    /\ last.body.jwt.user.storeId = 1
    /\ ~users[1].isActive

\* C34: the owner's reset of a store manager's password changes no user
\* record and no other table, also when it answers 200 "Password reset
\* successfully" with a temporary password; and a login with a temporary
\* password that a reset returned is answered 401.
C34_ManagerResetStoresNothing ==
    [][/\ \A o \in Owners, id \in 1..MaxStores, pw \in FreshTempPasswords :
             ResetManagerPassword(Claims(o), id, pw) =>
                 /\ users' = users
                 /\ tables' = tables
                 /\ last'.status = 200 =>
                       /\ last'.message = "Password reset successfully"
                       /\ last'.body.tempPassword = pw
       /\ \A e \in Emails, pw \in FreshTempPasswords :
             Login(e, pw) => last'.status = 401]_vars

\* The reset for store 1 was answered with a temporary password, and the
\* manager's record still has the password and the flag of its creation
C34_Witness ==
    /\ last.rq.op = "resetManagerPassword"
    /\ last.status = 200
    /\ last.body.tempPassword = "tmp2"
    /\ last.body.storeId = 1
    /\ users[2].storeId = 1
    /\ users[2].password = bcryptHash("tmp")
    /\ users[2].mustResetPassword

\* C35: the store of a session being inactive refuses nothing to the
\* session: an upload with a file on a session that has not expired is
\* answered 200 and the photo stored, a try-on by a session that has not
\* expired and has a photo, of an item of its store, is refused by no check
\* (it is answered 200, or 500 when the generation fails), and the listing
\* of the store is answered 200 with its available items.
C35_InactiveStoreSessionsWork ==
    LET session == getCustomerSession(last.rq.sessionId)
        item    == getClothingItem(last.rq.clothingItemId)
        live    == /\ session.id # 0
                   /\ session.expiresAt > last.rq.t
                   /\ ~getStore(session.storeId).isActive
    IN  /\ (last.rq.op = "upload" /\ live /\ last.rq.file # "") =>
               /\ last.status = 200
               /\ session.photoUrl = last.rq.file
        /\ (/\ last.rq.op = "tryOn"
            /\ live
            /\ session.photoUrl # ""
            /\ item.id # 0
            /\ item.storeId = session.storeId) =>
               \/ last.status = 200
               \/ /\ last.status = 500
                  /\ last.message = "Failed to generate try-on image"
                  /\ apiKey
        /\ (/\ last.rq.op = "clothes"
            /\ last.rq.storeId \in 1..Len(stores)
            /\ ~stores[last.rq.storeId].isActive) =>
               /\ last.status = 200
               /\ last.body.items =
                      {clothingItems[i] : i \in
                          {j \in 1..Len(clothingItems) :
                              /\ clothingItems[j].storeId = last.rq.storeId
                              /\ clothingItems[j].isAvailable}}

\* A try-on was answered with a result for a session of store 1, which was
\* turned off after the session was created and is off
C35_Witness ==
    /\ last.rq.op = "tryOn"
    /\ last.status = 200
    /\ ~stores[1].isActive
    /\ customerSessions[last.rq.sessionId].storeId = 1
    /\ customerSessions[last.rq.sessionId].photoUrl # ""
    /\ BagCardinality(tryOnHistory) = 1

\* C36: every write of a try-on request, the history record, the counter
\* increment and the try_on audit event, is made at a time before the
\* expiresAt of the session of the request, also when the generation call
\* was started before the expiry and came back after it.
C36_NoWriteAfterExpiry ==
    [][\A p \in Slots :
          (/\ req[p].pc \in {"tHistory", "tIncrement", "tLog"}
           /\ req'[p] # req[p]
           /\ \/ tryOnHistory' # tryOnHistory
              \/ clothingItems' # clothingItems
              \/ usageLogs' # usageLogs)
          => now < req[p].session.expiresAt]_vars

C38_CheckOrder ==
    (/\ last.rq.op = "tryOn"
     /\ last.rq.sessionId # 0
     /\ last.rq.clothingItemId # 0) =>
        LET session == getCustomerSession(last.rq.sessionId) IN
        /\ (session.id = 0 \/ last.rq.t >= session.expiresAt) =>
               /\ last.status = 401
               /\ last.message = "Session expired"
        /\ (/\ session.id # 0
            /\ last.rq.t < session.expiresAt
            /\ session.photoUrl = "") =>
               /\ last.status = 400
               /\ last.message = "Please upload a photo first"

\* C39: in every state, every customer session has the store of the QR
\* grant it was created from, and every try-on history record names a
\* customer session and a clothing item of one store (an item whose row a
\* manager has deleted since has no store any more).
C39_OneStorePerChain ==
    /\ \A c \in 1..Len(customerSessions) :
           /\ customerSessions[c].qrSessionId \in 1..Len(qrSessions)
           /\ customerSessions[c].storeId =
                  qrSessions[customerSessions[c].qrSessionId].storeId
    /\ \A h \in BagToSet(tryOnHistory) :
           /\ h.customerSessionId \in 1..Len(customerSessions)
           /\ h.clothingItemId \in 1..Len(clothingItems)
           /\ clothingItems[h.clothingItemId].id # 0 =>
                  clothingItems[h.clothingItemId].storeId =
                      customerSessions[h.customerSessionId].storeId

\* A session of the second store has tried on an item of its store, and its
\* try-on of an item of the first store was refused
C39_Witness ==
    /\ last.rq.op = "tryOn"
    /\ last.status = 404
    /\ last.rq.session.storeId = 2
    /\ last.rq.clothingItem.storeId = 1
    /\ \E h \in BagToSet(tryOnHistory) :
           /\ h.customerSessionId = last.rq.session.id
           /\ clothingItems[h.clothingItemId].storeId = 2

====
